---- MODULE Spec2Model ----
(***************************************************************************)
(* Model of parse_smartform (src/app/main.py): the single-pass state       *)
(* machine that turns a flat SmartForm row stream into pages, windows and  *)
(* graphics.  A Python str is modelled as a sequence of one-character      *)
(* strings, so that strip, startswith, the regular expressions, upper,     *)
(* join and sorted are computed character by character.                    *)
(***************************************************************************)
EXTENDS Naturals, Sequences, FiniteSets, TLC

\* ------------------------------------------------------------------------
\* Characters and strings
\* ------------------------------------------------------------------------

\* The printable ASCII characters in code-point order, 32 (space) .. 126.
\* Code point 96 is written "GRAVE": the lexer rejects a grave accent in a
\* string.
Printable ==
  << " ", "!", "\"", "#", "$", "%", "&", "'", "(", ")", "*", "+", ",", "-",
     ".", "/", "0", "1", "2", "3", "4", "5", "6", "7", "8", "9", ":", ";",
     "<", "=", ">", "?", "@", "A", "B", "C", "D", "E", "F", "G", "H", "I",
     "J", "K", "L", "M", "N", "O", "P", "Q", "R", "S", "T", "U", "V", "W",
     "X", "Y", "Z", "[", "\\", "]", "^", "_", "GRAVE", "a", "b", "c", "d", "e",
     "f", "g", "h", "i", "j", "k", "l", "m", "n", "o", "p", "q", "r", "s",
     "t", "u", "v", "w", "x", "y", "z", "{", "|", "}", "~" >>

Char == {Printable[i] : i \in 1..Len(Printable)} \cup {"\n", "\t"}

\* Code point of a character: the order Python compares str by.
ord ==
  [c \in Char |->
     IF c = "\t" THEN 9
     ELSE IF c = "\n" THEN 10
     ELSE 31 + (CHOOSE i \in 1..Len(Printable) : Printable[i] = c)]

chr(n) == Printable[n - 31]

isspace(c) == c \in {" ", "\t", "\n"}

isupper(c) == ord[c] \in 65..90
islower(c) == ord[c] \in 97..122
isdigit(c) == ord[c] \in 48..57

\* \w of the re module, and the classes the two patterns spell out.
IsWord(c) == isupper(c) \/ islower(c) \/ isdigit(c) \/ c = "_"
IsTableChar(c) == IsWord(c) \/ c \in {".", "/"}

upper_char(c) == IF islower(c) THEN chr(ord[c] - 32) ELSE c

\* str.upper()
upper(s) == [i \in 1..Len(s) |-> upper_char(s[i])]

\* str.strip(): drops leading and trailing whitespace.
RECURSIVE lstrip(_)
lstrip(s) ==
  IF s # <<>> /\ isspace(Head(s)) THEN lstrip(Tail(s)) ELSE s

RECURSIVE rstrip(_)
rstrip(s) ==
  IF s # <<>> /\ isspace(s[Len(s)]) THEN rstrip(SubSeq(s, 1, Len(s) - 1))
  ELSE s

strip(s) == rstrip(lstrip(s))

\* str.startswith(p)
startswith(s, p) == Len(s) >= Len(p) /\ SubSeq(s, 1, Len(p)) = p

\* p in s, for str
contains(s, p) ==
  \E i \in 1..(Len(s) + 1) :
    i + Len(p) - 1 <= Len(s) /\ SubSeq(s, i, i + Len(p) - 1) = p

\* Lexicographic order of str by code point (str.__lt__).
RECURSIVE str_lt(_, _)
str_lt(a, b) ==
  IF b = <<>> THEN FALSE
  ELSE IF a = <<>> THEN TRUE
  ELSE IF ord[Head(a)] < ord[Head(b)] THEN TRUE
  ELSE IF ord[Head(a)] > ord[Head(b)] THEN FALSE
  ELSE str_lt(Tail(a), Tail(b))

\* sorted in descending order.
RECURSIVE sorted_Desc(_)
sorted_Desc(S) ==
  IF S = {} THEN <<>>
  ELSE LET m == CHOOSE x \in S : \A y \in S \ {x} : str_lt(y, x)
       IN  <<m>> \o sorted_Desc(S \ {m})

\* sorted(set of str): ascending, one entry per element.
RECURSIVE sorted(_)
sorted(S) ==
  IF S = {} THEN <<>>
  ELSE LET m == CHOOSE x \in S : \A y \in S \ {x} : str_lt(x, y)
       IN  <<m>> \o sorted(S \ {m})

\* "\n".join(list of str)
RECURSIVE join(_)
join(buf) ==
  IF buf = <<>> THEN <<>>
  ELSE IF Len(buf) = 1 THEN buf[1]
  ELSE buf[1] \o <<"\n">> \o join(Tail(buf))

\* ------------------------------------------------------------------------
\* The two regular expressions
\* ------------------------------------------------------------------------

\* The character classes \s, \w and [A-Za-z0-9_./] as sets.
SpaceChars == {c \in Char : isspace(c)}
WordChars  == {c \in Char : IsWord(c)}
TableChars == {c \in Char : IsTableChar(c)}

\* First index >= i whose character is outside the class C (Len(s)+1 if
\* none): the end of a greedy [class]* starting at i.
SpanEnd(C, s, i) ==
  CHOOSE j \in i..(Len(s) + 1) :
    /\ \A k \in i..(j - 1) : s[k] \in C
    /\ j = Len(s) + 1 \/ s[j] \notin C

\* \b just before position i.
WordBoundary(s, i) ==
  (i > 1 /\ i - 1 <= Len(s) /\ IsWord(s[i - 1])) # (i <= Len(s) /\ IsWord(s[i]))

S_FROM == <<"F", "R", "O", "M">>

\* re.findall(r"\bFROM\s+([A-Za-z0-9_./]+)", text, re.IGNORECASE), scanning
\* from position i: the captured identifiers, left to right.
RECURSIVE find_tables_from(_, _)
find_tables_from(s, i) ==
  IF i > Len(s) THEN <<>>
  ELSE
    LET kw  == /\ WordBoundary(s, i)
               /\ i + 3 <= Len(s)
               /\ upper(SubSeq(s, i, i + 3)) = S_FROM
        ws  == SpanEnd(SpaceChars, s, i + 4)
        ge  == SpanEnd(TableChars, s, ws)
    IN  IF kw /\ ws > i + 4 /\ ge > ws
        THEN <<SubSeq(s, ws, ge - 1)>> \o find_tables_from(s, ge)
        ELSE find_tables_from(s, i + 1)

find_tables(text) == find_tables_from(text, 1)

\* re.findall(r"\b([A-Za-z0-9_]+)-([A-Za-z0-9_]+)\b", text), scanning from
\* position i: the (work area, field) pairs, left to right.
RECURSIVE find_fields_from(_, _)
find_fields_from(s, i) ==
  IF i > Len(s) THEN <<>>
  ELSE
    LET w1 == SpanEnd(WordChars, s, i)
        w2 == SpanEnd(WordChars, s, w1 + 1)
    IN  IF /\ WordBoundary(s, i)
           /\ w1 > i
           /\ w1 <= Len(s)
           /\ s[w1] = "-"
           /\ w2 > w1 + 1
        THEN <<[wa |-> SubSeq(s, i, w1 - 1), field |-> SubSeq(s, w1 + 1, w2 - 1)]>>
             \o find_fields_from(s, w2)
        ELSE find_fields_from(s, i + 1)

find_fields(text) == find_fields_from(text, 1)

Range(f) == {f[i] : i \in DOMAIN f}

\* ------------------------------------------------------------------------
\* Literals of the source
\* ------------------------------------------------------------------------

S_NODETYPE == <<"N", "O", "D", "E", "T", "Y", "P", "E">>
S_INAME    == <<"I", "N", "A", "M", "E">>
S_PA       == <<"P", "A">>
S_WI       == <<"W", "I">>
S_GR       == <<"G", "R">>
S_CAPTION  == <<"C", "A", "P", "T", "I", "O", "N">>
S_FORMNAME == <<"F", "O", "R", "M", "N", "A", "M", "E">>
S_NAME     == <<"N", "A", "M", "E">>
S_TYPENAME == <<"T", "Y", "P", "E", "N", "A", "M", "E">>
S_item     == <<"i", "t", "e", "m">>
S_T        == <<"T">>
S_TAB      == <<"T", "A", "B">>
S_ROW      == <<"%", "R", "O", "W">>
S_CELL     == <<"%", "C", "E", "L", "L">>
S_TEXT     == <<"%", "T", "E", "X", "T">>

CaptionElems == {S_CAPTION, S_FORMNAME, S_NAME, S_TYPENAME}

\* Python's None for last_page_name is <<>>, a str value v is <<v>>.
None == <<>>
Some(v) == <<v>>

\* ------------------------------------------------------------------------
\* State
\* ------------------------------------------------------------------------

VARIABLES
  rows,             \* the rows the for loop has consumed so far, in order
  pc,               \* "loop" | "finalize" | "done" | "error"
  pages,            \* list of page dicts; windows/graphics hold object ids
  windows,          \* every window dict created, by object id
  graphics,         \* every graphic dict created, by object id
  current_page,     \* index into pages, 0 for None
  current_window,   \* id into windows, 0 for None
  current_graphic,  \* id into graphics, 0 for None
  capture_page,
  capture_window,
  capture_graphic,
  last_page_name,
  code_buffer,
  buffer_owner,     \* for each entry of code_buffer, the current_window it
                    \* was appended under
  result            \* the returned dict, None until the function returns

vars == << rows, pc, pages, windows, graphics, current_page, current_window,
           current_graphic, capture_page, capture_window, capture_graphic,
           last_page_name, code_buffer, buffer_owner, result >>

tracker == << pages, current_page, current_window, current_graphic,
              capture_page, capture_window, capture_graphic, last_page_name >>

Init ==
  /\ rows = <<>>
  /\ pc = "loop"
  /\ pages = <<>>
  /\ windows = <<>>
  /\ graphics = <<>>
  /\ current_page = 0
  /\ current_window = 0
  /\ current_graphic = 0
  /\ capture_page = FALSE
  /\ capture_window = FALSE
  /\ capture_graphic = FALSE
  /\ last_page_name = None
  /\ code_buffer = <<>>
  /\ buffer_owner = <<>>
  /\ result = None

\* ------------------------------------------------------------------------
\* Container constructors
\* ------------------------------------------------------------------------

new_page(text) == [page_name |-> text, windows |-> <<>>, graphics |-> <<>>]

new_window(text) ==
  [window_name |-> text, rows |-> <<>>, cells |-> <<>>, texts |-> <<>>,
   code |-> <<>>, captions |-> <<>>, fields |-> <<>>, tables |-> <<>>,
   _captions_set |-> {}, _fields_set |-> {}, _tables_set |-> {}]

new_graphic(text) ==
  [graphic_name |-> text, captions |-> <<>>, fields |-> <<>>,
   tables |-> <<>>,
   _captions_set |-> {}, _fields_set |-> {}, _tables_set |-> {}]

\* ------------------------------------------------------------------------
\* Heuristic extractors (the same statements for a window and a graphic)
\* ------------------------------------------------------------------------

caption_keys(elem, text) ==
  IF elem \in CaptionElems /\ text # <<>>
  THEN {elem \o <<":">> \o text}
  ELSE {}

sql_tables(text) == {upper(t) : t \in Range(find_tables(text))}

\* workarea_fields keeping the first match only (re.search for re.findall).
workarea_fields_First(text) ==
  LET ms == find_fields(text)
  IN  IF ms = <<>> THEN {}
      ELSE {upper(ms[1].wa) \o <<"-">> \o upper(ms[1].field)}

workarea_fields(text) ==
  {upper(m.wa) \o <<"-">> \o upper(m.field) : m \in Range(find_fields(text))}

type_tables(elem, text) ==
  IF elem = S_TYPENAME /\ (contains(text, S_T) \/ contains(upper(text), S_TAB))
  THEN {text}
  ELSE {}

extract_sets(c, elem, text) ==
  [c EXCEPT
     !._captions_set = @ \cup caption_keys(elem, text),
     !._tables_set   = @ \cup sql_tables(text) \cup type_tables(elem, text),
     !._fields_set   = @ \cup workarea_fields(text)]

\* ------------------------------------------------------------------------
\* One iteration of the for loop
\* ------------------------------------------------------------------------

\* classify_window testing the item branch before the three prefixes.
classify_window_ItemFirst(w, elem, text) ==
  IF elem = S_item /\ text # <<>>
  THEN [win |-> w,
        buf |-> Append(code_buffer, text),
        own |-> Append(buffer_owner, current_window)]
  ELSE IF startswith(text, S_ROW)
  THEN [win |-> [w EXCEPT !.rows = Append(@, text)],
        buf |-> code_buffer, own |-> buffer_owner]
  ELSE IF startswith(text, S_CELL)
  THEN [win |-> [w EXCEPT !.cells = Append(@, text)],
        buf |-> code_buffer, own |-> buffer_owner]
  ELSE IF startswith(text, S_TEXT)
  THEN [win |-> [w EXCEPT !.texts = Append(@, text)],
        buf |-> code_buffer, own |-> buffer_owner]
  ELSE IF code_buffer # <<>>
  THEN [win |-> [w EXCEPT !.code = Append(@, join(code_buffer))],
        buf |-> <<>>, own |-> <<>>]
  ELSE [win |-> w, buf |-> code_buffer, own |-> buffer_owner]

\* Structural classification of a row inside the current window, after the
\* extractors have run on it.  Returns the window, the code buffer and the
\* owners of its entries.
classify_window(w, elem, text) ==
  IF startswith(text, S_ROW)
  THEN [win |-> [w EXCEPT !.rows = Append(@, text)],
        buf |-> code_buffer, own |-> buffer_owner]
  ELSE IF startswith(text, S_CELL)
  THEN [win |-> [w EXCEPT !.cells = Append(@, text)],
        buf |-> code_buffer, own |-> buffer_owner]
  ELSE IF startswith(text, S_TEXT)
  THEN [win |-> [w EXCEPT !.texts = Append(@, text)],
        buf |-> code_buffer, own |-> buffer_owner]
  ELSE IF elem = S_item /\ text # <<>>
  THEN [win |-> w,
        buf |-> Append(code_buffer, text),
        own |-> Append(buffer_owner, current_window)]
  ELSE IF code_buffer # <<>>
  THEN [win |-> [w EXCEPT !.code = Append(@, join(code_buffer))],
        buf |-> <<>>, own |-> <<>>]
  ELSE [win |-> w, buf |-> code_buffer, own |-> buffer_owner]

\* if elem == "NODETYPE" and text == "PA"
PageMarker ==
  /\ capture_page' = TRUE
  /\ UNCHANGED << pages, windows, graphics, current_page, current_window,
                  current_graphic, capture_window, capture_graphic,
                  last_page_name, code_buffer, buffer_owner >>

\* PageName without the comparison against last_page_name.
PageName_NoDedup(text) ==
  /\ pages' = Append(pages, new_page(text))
  /\ current_page' = Len(pages) + 1
  /\ last_page_name' = Some(text)
  /\ current_window' = 0
  /\ current_graphic' = 0
  /\ capture_page' = FALSE
  /\ UNCHANGED << windows, graphics, capture_window, capture_graphic,
                  code_buffer, buffer_owner >>

\* PageName dropping the current page when the name is a repeat.
PageName_SuppressDropsPage(text) ==
  /\ IF last_page_name # Some(text)
     THEN /\ pages' = Append(pages, new_page(text))
          /\ current_page' = Len(pages) + 1
          /\ last_page_name' = Some(text)
     ELSE /\ current_page' = 0
          /\ UNCHANGED << pages, last_page_name >>
  /\ current_window' = 0
  /\ current_graphic' = 0
  /\ capture_page' = FALSE
  /\ UNCHANGED << windows, graphics, capture_window, capture_graphic,
                  code_buffer, buffer_owner >>

\* PageName clearing all three capture flags.
PageName_ClearsAllFlags(text) ==
  /\ IF last_page_name # Some(text)
     THEN /\ pages' = Append(pages, new_page(text))
          /\ current_page' = Len(pages) + 1
          /\ last_page_name' = Some(text)
     ELSE UNCHANGED << pages, current_page, last_page_name >>
  /\ current_window' = 0
  /\ current_graphic' = 0
  /\ capture_page' = FALSE
  /\ capture_window' = FALSE
  /\ capture_graphic' = FALSE
  /\ UNCHANGED << windows, graphics, code_buffer, buffer_owner >>

\* PageName attaching the open window to the page it creates.
PageName_AdoptsWindow(text) ==
  /\ IF last_page_name # Some(text)
     THEN /\ pages' = Append(pages,
                         [new_page(text) EXCEPT !.windows =
                            IF current_window # 0
                            THEN <<current_window>> ELSE <<>>])
          /\ current_page' = Len(pages) + 1
          /\ last_page_name' = Some(text)
     ELSE UNCHANGED << pages, current_page, last_page_name >>
  /\ current_window' = 0
  /\ current_graphic' = 0
  /\ capture_page' = FALSE
  /\ UNCHANGED << windows, graphics, capture_window, capture_graphic,
                  code_buffer, buffer_owner >>

\* PageName resetting the current window and graphic only when a new page
\* is opened.
PageName_ResetOnlyOnNew(text) ==
  /\ IF last_page_name # Some(text)
     THEN /\ pages' = Append(pages, new_page(text))
          /\ current_page' = Len(pages) + 1
          /\ last_page_name' = Some(text)
          /\ current_window' = 0
          /\ current_graphic' = 0
     ELSE UNCHANGED << pages, current_page, last_page_name, current_window,
                       current_graphic >>
  /\ capture_page' = FALSE
  /\ UNCHANGED << windows, graphics, capture_window, capture_graphic,
                  code_buffer, buffer_owner >>

\* if capture_page and elem == "INAME"
PageName(text) ==
  /\ IF last_page_name # Some(text)
     THEN /\ pages' = Append(pages, new_page(text))
          /\ current_page' = Len(pages) + 1
          /\ last_page_name' = Some(text)
     ELSE UNCHANGED << pages, current_page, last_page_name >>
  /\ current_window' = 0
  /\ current_graphic' = 0
  /\ capture_page' = FALSE
  /\ UNCHANGED << windows, graphics, capture_window, capture_graphic,
                  code_buffer, buffer_owner >>

\* WindowMarker without the continue: the marker row goes on to the
\* extraction part of the loop body.
WindowMarker_NoContinue ==
  /\ capture_window' = TRUE
  /\ IF current_window # 0
     THEN LET c == classify_window(
                     extract_sets(windows[current_window], S_NODETYPE, S_WI),
                     S_NODETYPE, S_WI)
          IN  /\ windows' = [windows EXCEPT ![current_window] = c.win]
              /\ code_buffer' = c.buf
              /\ buffer_owner' = c.own
     ELSE UNCHANGED << windows, code_buffer, buffer_owner >>
  /\ IF current_graphic # 0
     THEN graphics' = [graphics EXCEPT ![current_graphic] =
                                         extract_sets(@, S_NODETYPE, S_WI)]
     ELSE UNCHANGED graphics
  /\ UNCHANGED << pages, current_page, current_window, current_graphic,
                  capture_page, capture_graphic, last_page_name >>

\* if elem == "NODETYPE" and text == "WI"
WindowMarker ==
  /\ capture_window' = TRUE
  /\ UNCHANGED << pages, windows, graphics, current_page, current_window,
                  current_graphic, capture_page, capture_graphic,
                  last_page_name, code_buffer, buffer_owner >>

\* WindowName with the append to the current page executed twice.
WindowName_AppendTwice(text) ==
  /\ windows' = Append(windows, new_window(text))
  /\ current_window' = Len(windows) + 1
  /\ pages' = IF current_page # 0
              THEN [pages EXCEPT ![current_page].windows =
                                   Append(Append(@, Len(windows) + 1),
                                          Len(windows) + 1)]
              ELSE pages
  /\ capture_window' = FALSE
  /\ UNCHANGED << graphics, current_page, current_graphic, capture_page,
                  capture_graphic, last_page_name, code_buffer,
                  buffer_owner >>

\* if capture_window and elem == "INAME"
WindowName(text) ==
  /\ windows' = Append(windows, new_window(text))
  /\ current_window' = Len(windows) + 1
  /\ pages' = IF current_page # 0
              THEN [pages EXCEPT ![current_page].windows =
                                   Append(@, Len(windows) + 1)]
              ELSE pages
  /\ capture_window' = FALSE
  /\ UNCHANGED << graphics, current_page, current_graphic, capture_page,
                  capture_graphic, last_page_name, code_buffer,
                  buffer_owner >>

\* if elem == "NODETYPE" and text == "GR"
GraphicMarker ==
  /\ capture_graphic' = TRUE
  /\ UNCHANGED << pages, windows, graphics, current_page, current_window,
                  current_graphic, capture_page, capture_window,
                  last_page_name, code_buffer, buffer_owner >>

\* if capture_graphic and elem == "INAME"
GraphicName(text) ==
  /\ graphics' = Append(graphics, new_graphic(text))
  /\ current_graphic' = Len(graphics) + 1
  /\ pages' = IF current_page # 0
              THEN [pages EXCEPT ![current_page].graphics =
                                   Append(@, Len(graphics) + 1)]
              ELSE pages
  /\ capture_graphic' = FALSE
  /\ UNCHANGED << windows, current_page, current_window, capture_page,
                  capture_window, last_page_name, code_buffer,
                  buffer_owner >>

\* Extract running the graphic block only when no window is current (elif
\* for the second if).
Extract_GraphicElse(elem, text) ==
  /\ IF current_window # 0
     THEN LET c == classify_window(
                     extract_sets(windows[current_window], elem, text),
                     elem, text)
          IN  /\ windows' = [windows EXCEPT ![current_window] = c.win]
              /\ code_buffer' = c.buf
              /\ buffer_owner' = c.own
     ELSE UNCHANGED << windows, code_buffer, buffer_owner >>
  /\ IF current_graphic # 0 /\ current_window = 0
     THEN graphics' = [graphics EXCEPT ![current_graphic] =
                                         extract_sets(@, elem, text)]
     ELSE UNCHANGED graphics
  /\ UNCHANGED tracker

\* Extract writing into the most recently created window instead of the
\* current one.
Extract_LastWindow(elem, text) ==
  /\ IF windows # <<>>
     THEN LET c == classify_window(
                     extract_sets(windows[Len(windows)], elem, text),
                     elem, text)
          IN  /\ windows' = [windows EXCEPT ![Len(windows)] = c.win]
              /\ code_buffer' = c.buf
              /\ buffer_owner' = c.own
     ELSE UNCHANGED << windows, code_buffer, buffer_owner >>
  /\ IF current_graphic # 0
     THEN graphics' = [graphics EXCEPT ![current_graphic] =
                                         extract_sets(@, elem, text)]
     ELSE UNCHANGED graphics
  /\ UNCHANGED tracker

\* The rest of the loop body: extraction inside the current window and the
\* current graphic.
Extract(elem, text) ==
  /\ IF current_window # 0
     THEN LET c == classify_window(
                     extract_sets(windows[current_window], elem, text),
                     elem, text)
          IN  /\ windows' = [windows EXCEPT ![current_window] = c.win]
              /\ code_buffer' = c.buf
              /\ buffer_owner' = c.own
     ELSE UNCHANGED << windows, code_buffer, buffer_owner >>
  /\ IF current_graphic # 0
     THEN graphics' = [graphics EXCEPT ![current_graphic] =
                                         extract_sets(@, elem, text)]
     ELSE UNCHANGED graphics
  /\ UNCHANGED tracker

\* parse_smartform, one pass of "for row in rows"
ProcessRow(row) ==
  LET elem == row.ELEM_NAME
      text == strip(row.TEXT_PAYLOAD)
  IN  /\ pc = "loop"
      /\ rows' = Append(rows, row)
      /\ UNCHANGED << pc, result >>
      /\ IF elem = S_NODETYPE /\ text = S_PA THEN PageMarker
         ELSE IF capture_page /\ elem = S_INAME THEN PageName(text)
         ELSE IF elem = S_NODETYPE /\ text = S_WI THEN WindowMarker
         ELSE IF capture_window /\ elem = S_INAME THEN WindowName(text)
         ELSE IF elem = S_NODETYPE /\ text = S_GR THEN GraphicMarker
         ELSE IF capture_graphic /\ elem = S_INAME THEN GraphicName(text)
         ELSE Extract(elem, text)

\* ------------------------------------------------------------------------
\* After the loop: final flush, finalization, return
\* ------------------------------------------------------------------------

SetKeys == {"_captions_set", "_fields_set", "_tables_set"}

\* The three pop/sorted assignments on one container.
finalize_container(c) ==
  LET d == [c EXCEPT !.captions = sorted(c._captions_set),
                     !.fields   = sorted(c._fields_set),
                     !.tables   = sorted(c._tables_set)]
  IN  [k \in (DOMAIN d) \ SetKeys |-> d[k]]

\* The finalization loop over the containers with the given ids, in order.
\* dict.pop raises KeyError on a container whose sets are already popped.
RECURSIVE finalize_all(_, _)
finalize_all(heap, ids) ==
  IF ids = <<>> THEN [ok |-> TRUE, heap |-> heap]
  ELSE IF ~(SetKeys \subseteq DOMAIN heap[Head(ids)])
  THEN [ok |-> FALSE, heap |-> heap]
  ELSE finalize_all(
         [heap EXCEPT ![Head(ids)] = finalize_container(heap[Head(ids)])],
         Tail(ids))

RECURSIVE page_ids(_, _)
page_ids(ps, key) ==
  IF ps = <<>> THEN <<>>
  ELSE (IF key = "windows" THEN Head(ps).windows ELSE Head(ps).graphics)
       \o page_ids(Tail(ps), key)

\* end_flush without the flush.
end_flush_Skip(heap) == heap

\* if code_buffer and current_window: current_window["code"].append(...)
end_flush(heap) ==
  IF code_buffer # <<>> /\ current_window # 0
  THEN [heap EXCEPT ![current_window].code = Append(@, join(code_buffer))]
  ELSE heap

\* {"pages": pages} with the object ids replaced by the objects
build_result(ps, wheap, gheap) ==
  [pages |->
     [i \in 1..Len(ps) |->
        [page_name |-> ps[i].page_name,
         windows   |-> [j \in 1..Len(ps[i].windows) |->
                          wheap[ps[i].windows[j]]],
         graphics  |-> [j \in 1..Len(ps[i].graphics) |->
                          gheap[ps[i].graphics[j]]]]]]

\* The input is exhausted: the for loop ends and the pending code buffer is
\* flushed into the current window.
EndOfStream ==
  /\ pc = "loop"
  /\ pc' = "finalize"
  /\ windows' = end_flush(windows)
  /\ UNCHANGED << rows, graphics, tracker, code_buffer, buffer_owner,
                  result >>

\* The finalization loop over pages, and the return.
Finalize ==
  LET fw == finalize_all(windows, page_ids(pages, "windows"))
      fg == finalize_all(graphics, page_ids(pages, "graphics"))
  IN  /\ pc = "finalize"
      /\ windows' = fw.heap
      /\ graphics' = fg.heap
      /\ IF fw.ok /\ fg.ok
         THEN /\ pc' = "done"
              /\ result' = Some(build_result(pages, fw.heap, fg.heap))
         ELSE /\ pc' = "error"
              /\ result' = None
      /\ UNCHANGED << rows, tracker, code_buffer, buffer_owner >>

\* ------------------------------------------------------------------------
\* Inputs and specifications
\* ------------------------------------------------------------------------

Row(elem, text) == [ELEM_NAME |-> elem, TEXT_PAYLOAD |-> text]

T_PAGE1  == <<"%", "P", "A", "G", "E", "1">>
T_WIN1   == <<"W", "I", "N", "1">>
T_SELECT == <<"S", "E", "L", "E", "C", "T", " ", "*", " ", "F", "R", "O", "M", " ", "Z", "T", "A", "B", "L", "E", "1", ".">>
T_Hello  == <<"H", "e", "l", "l", "o">>
T_ROW1   == <<"%", "R", "O", "W", "1", " ", "w", "a", "-", "f", "2", " ", "w", "a", "-", "f", "1", " ", "W", "A", "-", "F", "2">>
T_ZTAB   == <<" ", "Z", "T", "A", "B">>
T_blank  == <<" ", " ">>
S_LINE   == <<"L", "I", "N", "E">>

R_PA      == Row(S_NODETYPE, S_PA)
R_WI      == Row(S_NODETYPE, S_WI)
R_GR      == Row(S_NODETYPE, S_GR)
R_PAGE1   == Row(S_INAME, T_PAGE1)
R_WIN1    == Row(S_INAME, T_WIN1)
R_SELECT  == Row(S_item, T_SELECT)
R_Hello   == Row(S_CAPTION, T_Hello)
R_ROW1    == Row(S_LINE, T_ROW1)
R_ZTAB    == Row(S_TYPENAME, T_ZTAB)
R_blank   == Row(S_LINE, T_blank)

\* An item row of two lines: a full-line comment, and a statement with an
\* inline comment.
T_comment == <<"*", " ", "n", "\n", "x", " ", "=", " ", "1", ".", " ", "\"", "c">>
R_comment == Row(S_item, T_comment)

\* Rows with the structural prefixes; the first is an item row.
T_ROW2    == <<"%", "R", "O", "W", "2">>
T_CELL1   == <<"%", "C", "E", "L", "L", "1">>
T_TEXT1   == <<"%", "T", "E", "X", "T", "1">>
R_ROW2    == Row(S_item, T_ROW2)
R_CELL1   == Row(S_LINE, T_CELL1)
R_TEXT1   == Row(S_INAME, T_TEXT1)

\* A text line and the row that closes a text block.
S_TDLINE     == <<"T", "D", "L", "I", "N", "E">>
S_STYLE_NAME == <<"S", "T", "Y", "L", "E", "_", "N", "A", "M", "E">>
T_hello      == <<" ", "h", "e", "l", "l", "o", " ">>
T_S          == <<"S">>
R_TDLINE     == Row(S_TDLINE, T_hello)
R_STYLE      == Row(S_STYLE_NAME, T_S)

\* A chain of three identifiers joined by hyphens.
T_chain   == <<"a", "-", "b", "-", "c">>
R_chain   == Row(S_LINE, T_chain)

\* The rows the for loop may be fed under Spec.
Rows == {R_PA, R_WI, R_GR, R_PAGE1, R_WIN1, R_SELECT, R_ROW1, R_ZTAB}

\* The rows of MalformedSpec: markers, a name, ordinary rows and a row whose
\* text is empty once stripped, in any order.
MalformedRows == {R_PA, R_WI, R_GR, R_WIN1, R_SELECT, R_Hello, R_blank}

\* The rows of FieldSpec: the tracker rows and two rows with work-area
\* references, one of them a chain.
FieldRows == {R_PA, R_WI, R_GR, R_WIN1, R_chain, R_ROW1}

\* The rows of TrackerSpec: the three markers, two names and one ordinary
\* row.
TrackerRows == {R_PA, R_WI, R_GR, R_PAGE1, R_WIN1, R_ZTAB}

\* The rows of CodeSpec: a window can be opened, and every branch of the
\* structural classification has a row.
CodeRows == {R_WI, R_WIN1, R_ROW2, R_ROW1, R_CELL1, R_TEXT1, R_comment,
             R_Hello}

\* The rows of TextSpec: a window can be opened, and a text block can be
\* named, filled and closed.
TextRows == {R_WI, R_WIN1, R_TEXT1, R_TDLINE, R_STYLE}

\* The rows of the end-to-end scenario.
ScenarioRows == {R_PA, R_PAGE1, R_WI, R_WIN1, R_SELECT, R_Hello}

\* Longest input under Spec, ScenarioSpec and MalformedSpec.
MaxRows == 5
MaxScenarioRows == 6
MaxMalformedRows == 5
MaxFieldRows == 6
MaxTrackerRows == 6
MaxCodeRows == 5
MaxTextRows == 5

Step(A, n) == \E row \in A : Len(rows) < n /\ ProcessRow(row)

Next == Step(Rows, MaxRows) \/ EndOfStream \/ Finalize

Spec == Init /\ [][Next]_vars

ScenarioNext == Step(ScenarioRows, MaxScenarioRows) \/ EndOfStream \/ Finalize

ScenarioSpec == Init /\ [][ScenarioNext]_vars

MalformedNext ==
  Step(MalformedRows, MaxMalformedRows) \/ EndOfStream \/ Finalize

MalformedSpec == Init /\ [][MalformedNext]_vars

FieldNext == Step(FieldRows, MaxFieldRows) \/ EndOfStream \/ Finalize

FieldSpec == Init /\ [][FieldNext]_vars

TrackerNext == Step(TrackerRows, MaxTrackerRows) \/ EndOfStream \/ Finalize

TrackerSpec == Init /\ [][TrackerNext]_vars

CodeNext == Step(CodeRows, MaxCodeRows) \/ EndOfStream \/ Finalize

CodeSpec == Init /\ [][CodeNext]_vars

TextNext == Step(TextRows, MaxTextRows) \/ EndOfStream \/ Finalize

TextSpec == Init /\ [][TextNext]_vars

\* ------------------------------------------------------------------------
\* Properties
\* ------------------------------------------------------------------------

\* The row consumed by the step into the primed state.
IsMarker(row, m) ==
  row.ELEM_NAME = S_NODETYPE /\ strip(row.TEXT_PAYLOAD) = m

IsIname(row) == row.ELEM_NAME = S_INAME

\* rs ends with two Page-open marker/name pairs carrying the same name.
EndsWithRepeatedPagePair(rs) ==
  LET n == Len(rs)
  IN  /\ n >= 4
      /\ IsMarker(rs[n - 3], S_PA) /\ IsIname(rs[n - 2])
      /\ IsMarker(rs[n - 1], S_PA) /\ IsIname(rs[n])
      /\ strip(rs[n - 2].TEXT_PAYLOAD) = strip(rs[n].TEXT_PAYLOAD)

\* C1: when two Page-open marker/name pairs are processed one after the
\* other with the same name, the second name row appends nothing to the
\* page sequence, and the page sequence ends with one page of that name, not
\* two.
C1_RepeatedPageNameOnePage ==
  [][ (rows' # rows /\ EndsWithRepeatedPagePair(rows'))
      => /\ pages' = pages
         /\ pages # <<>>
         /\ Len(pages) >= 2
              => pages[Len(pages)].page_name # pages[Len(pages) - 1].page_name
    ]_vars

C1_Witness ==
  /\ EndsWithRepeatedPagePair(rows)
  /\ Len(pages) = 1
  /\ current_page = 1

ScenarioInput == <<R_PA, R_PAGE1, R_WI, R_WIN1, R_SELECT, R_Hello>>

\* C2: for the six-row end-to-end input the result has exactly one page,
\* named PAGE1, with exactly one window, named WIN1, whose tables include
\* ZTABLE1, whose captions include CAPTION:Hello and whose code is the single
\* statement of the item row.
C2_EndToEndScenario ==
  (pc = "done" /\ rows = ScenarioInput)
  => LET ps == result[1].pages
     IN  /\ Len(ps) = 1
         /\ ps[1].page_name = <<"P", "A", "G", "E", "1">>
         /\ Len(ps[1].windows) = 1
         /\ ps[1].windows[1].window_name = T_WIN1
         /\ <<"Z", "T", "A", "B", "L", "E", "1">>
              \in Range(ps[1].windows[1].tables)
         /\ (S_CAPTION \o <<":">> \o T_Hello)
              \in Range(ps[1].windows[1].captions)
         /\ ps[1].windows[1].code = <<T_SELECT>>

\* C3: the page_name of a newly opened page is the text of the INAME row
\* just consumed with a leading % stripped.
C3_PageNameStripsPercent ==
  [][ Len(pages') > Len(pages)
      => LET text == strip(rows'[Len(rows')].TEXT_PAYLOAD)
         IN  pages'[Len(pages')].page_name =
               IF startswith(text, <<"%">>) THEN Tail(text) ELSE text
    ]_vars

\* C4: before finalization a step changes a window only if it is the
\* current window and a graphic only if it is the current graphic; existing
\* containers are never removed.
C4_WritesOnlyIntoCurrent ==
  [][ pc # "finalize"
      => /\ Len(windows') >= Len(windows)
         /\ Len(graphics') >= Len(graphics)
         /\ \A w \in 1..Len(windows) :
              windows'[w] # windows[w] => w = current_window
         /\ \A g \in 1..Len(graphics) :
              graphics'[g] # graphics[g] => g = current_graphic
    ]_vars

\* A window was replaced by a newer one, and only the newer one was written.
C4_Witness ==
  /\ pc = "loop"
  /\ Len(windows) = 2
  /\ current_window = 2
  /\ windows[1] = new_window(windows[1].window_name)
  /\ windows[2]._captions_set # {}

\* C5: whenever a step appends to a window's code list, every entry of the
\* code buffer being flushed was buffered while that same window was the
\* current window.
C5_BufferScopedToWindow ==
  [][ \A w \in 1..Len(windows) :
        windows'[w].code # windows[w].code
        => \A i \in 1..Len(buffer_owner) : buffer_owner[i] = w
    ]_vars

\* C6: with a window current and a pending run in the code buffer, a row
\* that is not consumed by the tracker and is not itself a code row (it is
\* classified into rows, cells or texts, or falls through) appends the run
\* as one new code entry and clears the buffer.
C6_RunBreakFlushes ==
  [][ ( /\ pc = "loop"
        /\ rows' # rows
        /\ current_window # 0
        /\ code_buffer # <<>>
        /\ LET row  == rows'[Len(rows')]
               elem == row.ELEM_NAME
               text == strip(row.TEXT_PAYLOAD)
           IN  /\ ~(elem = S_NODETYPE /\ text \in {S_PA, S_WI, S_GR})
               /\ ~(elem = S_INAME
                    /\ (capture_page \/ capture_window \/ capture_graphic))
               /\ \/ startswith(text, S_ROW)
                  \/ startswith(text, S_CELL)
                  \/ startswith(text, S_TEXT)
                  \/ ~(elem = S_item /\ text # <<>>) )
      => /\ windows'[current_window].code =
              Append(windows[current_window].code, join(code_buffer))
         /\ code_buffer' = <<>>
    ]_vars

\* C7: when the stream ends with a window current and a non-empty code
\* buffer, the buffer is appended once, newline-joined, as one entry of that
\* window's code list; finalization leaves the code lists as they are and
\* the returned windows carry them.
C7_EndOfStreamFlush ==
  [][ /\ (pc = "loop" /\ pc' # "loop"
          /\ current_window # 0 /\ code_buffer # <<>>)
         => windows' = [windows EXCEPT ![current_window].code =
                                         Append(@, join(code_buffer))]
      /\ pc = "finalize"
         => \A w \in 1..Len(windows) : windows'[w].code = windows[w].code
      /\ (pc = "finalize" /\ pc' = "done")
         => \A i \in 1..Len(pages) : \A j \in 1..Len(pages[i].windows) :
              result'[1].pages[i].windows[j].code =
                windows[pages[i].windows[j]].code
    ]_vars

C7_Witness ==
  /\ pc = "done"
  /\ current_window # 0
  /\ code_buffer # <<>>
  /\ \E i \in 1..Len(pages) : \E j \in 1..Len(pages[i].windows) :
       /\ pages[i].windows[j] = current_window
       /\ result[1].pages[i].windows[j].code = <<join(code_buffer)>>

\* s is in strictly ascending lexicographic order.
StrictlyAscending(s) ==
  \A i \in 1..(Len(s) - 1) : str_lt(s[i], s[i + 1])

\* The returned container c holds, sorted and without duplicates, exactly
\* what the container b had accumulated before finalization, and none of
\* the intermediate keys.
FinalizedFrom(c, b) ==
  /\ StrictlyAscending(c.captions) /\ Range(c.captions) = b._captions_set
  /\ StrictlyAscending(c.fields)   /\ Range(c.fields)   = b._fields_set
  /\ StrictlyAscending(c.tables)   /\ Range(c.tables)   = b._tables_set
  /\ (DOMAIN c) \cap SetKeys = {}

\* C8: in the result every window and graphic of every page has captions,
\* fields and tables lexicographically sorted, duplicate-free and equal as
\* sets to the accumulated sets, and no _captions_set, _fields_set or
\* _tables_set key.
C8_FinalizedLists ==
  [][ pc' = "done" /\ pc # "done"
      => \A i \in 1..Len(pages) :
           /\ Len(result'[1].pages[i].windows) = Len(pages[i].windows)
           /\ Len(result'[1].pages[i].graphics) = Len(pages[i].graphics)
           /\ \A j \in 1..Len(pages[i].windows) :
                FinalizedFrom(result'[1].pages[i].windows[j],
                              windows[pages[i].windows[j]])
           /\ \A j \in 1..Len(pages[i].graphics) :
                FinalizedFrom(result'[1].pages[i].graphics[j],
                              graphics[pages[i].graphics[j]])
    ]_vars

C8_Witness ==
  /\ pc = "done"
  /\ \E i \in 1..Len(result[1].pages) :
       \E j \in 1..Len(result[1].pages[i].windows) :
         Len(result[1].pages[i].windows[j].fields) >= 2

\* C10: no input drives the function into an error: whatever rows have been
\* consumed, the end-of-stream flush and then the finalization can run, and
\* once the function is done it has returned a result; the empty input
\* returns an empty page sequence.
C10_NeverFails ==
  /\ pc # "error"
  /\ pc = "loop" => ENABLED EndOfStream
  /\ pc = "finalize" => ENABLED (Finalize /\ pc' = "done")
  /\ pc = "done" => result # None
  /\ (pc = "done" /\ rows = <<>>) => result = Some([pages |-> <<>>])

\* A window and a graphic opened before any page, and a marker never
\* followed by a name, and the function has returned.
C10_Witness ==
  /\ pc = "done"
  /\ result = Some([pages |-> <<>>])
  /\ pages = <<>>
  /\ current_window # 0
  /\ current_graphic # 0
  /\ capture_page

\* ------------------------------------------------------------------------
\* Properties of the extractors, the classifier and the tracker
\* ------------------------------------------------------------------------

\* In the unprimed state: row goes past the six tracker branches to the
\* extraction part of the loop body.
PassedToExtractors(row) ==
  LET elem == row.ELEM_NAME
      text == strip(row.TEXT_PAYLOAD)
  IN  /\ ~(elem = S_NODETYPE /\ text \in {S_PA, S_WI, S_GR})
      /\ ~(elem = S_INAME
           /\ (capture_page \/ capture_window \/ capture_graphic))

\* The occurrences of identifier-hyphen-identifier in s, as <<i, j, k>>:
\* a whole identifier s[i..j-1], a hyphen s[j], a whole identifier s[j+1..k].
FieldOccurrences(s) ==
  LET RunStart(n) == CHOOSE i \in 1..n :
                       /\ \A m \in i..n : IsWord(s[m])
                       /\ i = 1 \/ ~IsWord(s[i - 1])
      RunEnd(n)   == CHOOSE k \in n..Len(s) :
                       /\ \A m \in n..k : IsWord(s[m])
                       /\ k = Len(s) \/ ~IsWord(s[k + 1])
  IN  {<<RunStart(j - 1), j, RunEnd(j + 1)>> :
         j \in {h \in 2..(Len(s) - 1) :
                  s[h] = "-" /\ IsWord(s[h - 1]) /\ IsWord(s[h + 1])}}

\* The occurrence continues a chain: its left identifier is itself joined by
\* a hyphen to an identifier before it.
Chained(s, o) ==
  o[1] >= 3 /\ s[o[1] - 1] = "-" /\ IsWord(s[o[1] - 2])

FieldKey(s, o) ==
  upper(SubSeq(s, o[1], o[2] - 1)) \o <<"-">>
    \o upper(SubSeq(s, o[2] + 1, o[3]))

\* The step records the keys in the current window and the current graphic,
\* no step of the pass drops a recorded field, and the returned containers
\* list exactly the recorded fields.
FieldsReachResult(keys) ==
  /\ (pc = "loop" /\ rows' # rows /\ PassedToExtractors(rows'[Len(rows')]))
     => /\ current_window # 0
             => keys \subseteq windows'[current_window]._fields_set
        /\ current_graphic # 0
             => keys \subseteq graphics'[current_graphic]._fields_set
  /\ pc = "loop"
     => /\ \A w \in 1..Len(windows) :
             windows[w]._fields_set \subseteq windows'[w]._fields_set
        /\ \A g \in 1..Len(graphics) :
             graphics[g]._fields_set \subseteq graphics'[g]._fields_set
  /\ (pc = "finalize" /\ pc' = "done")
     => \A i \in 1..Len(pages) :
          /\ \A j \in 1..Len(pages[i].windows) :
               Range(result'[1].pages[i].windows[j].fields) =
                 windows[pages[i].windows[j]]._fields_set
          /\ \A j \in 1..Len(pages[i].graphics) :
               Range(result'[1].pages[i].graphics[j].fields) =
                 graphics[pages[i].graphics[j]]._fields_set

\* C11 (as claimed): every occurrence of identifier-hyphen-identifier in the
\* text of a row passed to the extractors ends up, uppercased, in the fields
\* of the current window and of the current graphic.
C11_EveryOccurrenceRecorded ==
  [][ LET text == strip(rows'[Len(rows')].TEXT_PAYLOAD)
      IN  FieldsReachResult(
            IF rows' # rows
            THEN {FieldKey(text, o) : o \in FieldOccurrences(text)}
            ELSE {})
    ]_vars

\* C11 (amended): every occurrence that does not continue a chain ends up,
\* uppercased, in the fields of the current window and of the current
\* graphic, however many there are in the payload.
C11_UnchainedOccurrencesRecorded ==
  [][ LET text == strip(rows'[Len(rows')].TEXT_PAYLOAD)
      IN  FieldsReachResult(
            IF rows' # rows
            THEN {FieldKey(text, o) :
                    o \in {q \in FieldOccurrences(text) : ~Chained(text, q)}}
            ELSE {})
    ]_vars

\* The chain a-b-c and the three-reference row were both extracted into one
\* returned window: A-B is listed, B-C is not, and the repeated reference is
\* listed once.
C11_Witness ==
  /\ pc = "done"
  /\ \E i \in 1..Len(result[1].pages) :
       \E j \in 1..Len(result[1].pages[i].windows) :
         result[1].pages[i].windows[j].fields =
           << <<"A", "-", "B">>,
              <<"W", "A", "-", "F", "1">>,
              <<"W", "A", "-", "F", "2">> >>

\* C12: every INAME row consumed as a page name, whether it opens a page or
\* is suppressed as a repeat, sets the current window and the current
\* graphic to none and clears the page flag; while no window (graphic) is
\* current, no existing window (graphic) is written, and the only change to
\* the windows (graphics) is a new empty one opened by a name row.
C12_PageNameResetsContainers ==
  [][ /\ ( /\ pc = "loop" /\ rows' # rows
           /\ capture_page /\ IsIname(rows'[Len(rows')]) )
         => /\ current_window' = 0
            /\ current_graphic' = 0
            /\ ~capture_page'
      /\ (pc = "loop" /\ current_window = 0)
         => \/ windows' = windows
            \/ /\ rows' # rows
               /\ capture_window /\ IsIname(rows'[Len(rows')])
               /\ windows' =
                    Append(windows,
                           new_window(strip(rows'[Len(rows')].TEXT_PAYLOAD)))
      /\ (pc = "loop" /\ current_graphic = 0)
         => \/ graphics' = graphics
            \/ /\ rows' # rows
               /\ capture_graphic /\ IsIname(rows'[Len(rows')])
               /\ graphics' =
                    Append(graphics,
                           new_graphic(strip(rows'[Len(rows')].TEXT_PAYLOAD)))
    ]_vars

\* A repeated page name was suppressed and still dropped the open window.
C12_Witness ==
  /\ rows = <<R_PA, R_WIN1, R_WI, R_WIN1, R_PA, R_WIN1>>
  /\ Len(pages) = 1
  /\ Len(windows) = 1
  /\ current_window = 0
  /\ ~capture_page

\* C13: a row consumed by the tracker (a PA, WI or GR marker, or an INAME
\* row taken as an awaited name) leaves every existing window and graphic
\* and the code buffer as they are; a container it opens starts empty.
C13_MarkerRowsConsumed ==
  [][ ( /\ pc = "loop" /\ rows' # rows
        /\ ~PassedToExtractors(rows'[Len(rows')]) )
      => /\ code_buffer' = code_buffer
         /\ \A w \in 1..Len(windows) : windows'[w] = windows[w]
         /\ \A g \in 1..Len(graphics) : graphics'[g] = graphics[g]
         /\ \A w \in (Len(windows) + 1)..Len(windows') :
              windows'[w] =
                new_window(strip(rows'[Len(rows')].TEXT_PAYLOAD))
         /\ \A g \in (Len(graphics) + 1)..Len(graphics') :
              graphics'[g] =
                new_graphic(strip(rows'[Len(rows')].TEXT_PAYLOAD))
    ]_vars

\* A marker and a name row were consumed while a window held extracted
\* tables and the code buffer was pending.
C13_Witness ==
  /\ rows = <<R_WI, R_WIN1, R_SELECT, R_WI, R_WIN1>>
  /\ code_buffer = <<T_SELECT>>
  /\ windows[1]._tables_set # {}
  /\ windows[1].code = <<>>
  /\ windows[2] = new_window(T_WIN1)

\* The lines of s, split at newlines.
RECURSIVE SplitLines(_)
SplitLines(s) ==
  IF \A i \in 1..Len(s) : s[i] # "\n" THEN <<s>>
  ELSE LET n == CHOOSE i \in 1..Len(s) :
                  s[i] = "\n" /\ \A m \in 1..(i - 1) : s[m] # "\n"
       IN  <<SubSeq(s, 1, n - 1)>> \o SplitLines(SubSeq(s, n + 1, Len(s)))

\* The lines of all the entries of a list of fragments.
RECURSIVE LinesOf(_)
LinesOf(entries) ==
  IF entries = <<>> THEN <<>>
  ELSE SplitLines(Head(entries)) \o LinesOf(Tail(entries))

\* One line after the cleanup: trimmed, cut at the first double quote and
\* right-trimmed.
CleanLine(line) ==
  LET t == strip(line)
  IN  IF \E i \in 1..Len(t) : t[i] = "\""
      THEN rstrip(SubSeq(t, 1,
             (CHOOSE i \in 1..Len(t) :
                t[i] = "\"" /\ \A m \in 1..(i - 1) : t[m] # "\"") - 1))
      ELSE t

\* The surviving lines of an item text: comment lines and empty lines are
\* dropped.
RECURSIVE CleanLines(_)
CleanLines(ls) ==
  IF ls = <<>> THEN <<>>
  ELSE (IF startswith(strip(Head(ls)), <<"*">>) \/ CleanLine(Head(ls)) = <<>>
        THEN <<>>
        ELSE <<CleanLine(Head(ls))>>)
       \o CleanLines(Tail(ls))

\* C14: an item row with non-empty text processed while a window is current
\* adds to the code buffer exactly its cleaned lines (trimmed, comment lines
\* dropped, cut at the first double quote, empty lines dropped), and no line
\* of any code entry starts with an asterisk.
C14_CodeCleanup ==
  [][ /\ ( /\ pc = "loop" /\ rows' # rows
           /\ current_window # 0
           /\ PassedToExtractors(rows'[Len(rows')])
           /\ rows'[Len(rows')].ELEM_NAME = S_item
           /\ LET text == strip(rows'[Len(rows')].TEXT_PAYLOAD)
              IN  /\ text # <<>>
                  /\ ~startswith(text, S_ROW)
                  /\ ~startswith(text, S_CELL)
                  /\ ~startswith(text, S_TEXT) )
         => LinesOf(code_buffer') =
              LinesOf(code_buffer)
                \o CleanLines(SplitLines(strip(rows'[Len(rows')].TEXT_PAYLOAD)))
      /\ \A w \in 1..Len(windows') : \A e \in 1..Len(windows'[w].code) :
           \A line \in Range(SplitLines(windows'[w].code[e])) :
             ~startswith(line, <<"*">>)
    ]_vars

\* C15: a row passed to the extractors while a window is current takes
\* exactly one of the five branches, first match first: %ROW, %CELL and %TEXT
\* append the text at the end of rows, cells and texts and touch nothing
\* else; an item row with text and none of the prefixes is appended to the
\* code buffer; any other row flushes a pending buffer as one code entry.
C15_StructuralDispatch ==
  [][ ( /\ pc = "loop" /\ rows' # rows
        /\ current_window # 0
        /\ PassedToExtractors(rows'[Len(rows')]) )
      => LET elem == rows'[Len(rows')].ELEM_NAME
             text == strip(rows'[Len(rows')].TEXT_PAYLOAD)
             w    == windows[current_window]
             v    == windows'[current_window]
             same(keys) ==
               /\ "rows"  \in keys => v.rows = w.rows
               /\ "cells" \in keys => v.cells = w.cells
               /\ "texts" \in keys => v.texts = w.texts
               /\ "code"  \in keys => v.code = w.code
               /\ "buf"   \in keys => code_buffer' = code_buffer
         IN  IF startswith(text, S_ROW)
             THEN /\ v.rows = Append(w.rows, text)
                  /\ same({"cells", "texts", "code", "buf"})
             ELSE IF startswith(text, S_CELL)
             THEN /\ v.cells = Append(w.cells, text)
                  /\ same({"rows", "texts", "code", "buf"})
             ELSE IF startswith(text, S_TEXT)
             THEN /\ v.texts = Append(w.texts, text)
                  /\ same({"rows", "cells", "code", "buf"})
             ELSE IF elem = S_item /\ text # <<>>
             THEN /\ Len(code_buffer') = Len(code_buffer) + 1
                  /\ SubSeq(code_buffer', 1, Len(code_buffer)) = code_buffer
                  /\ same({"rows", "cells", "texts", "code"})
             ELSE /\ code_buffer' = <<>>
                  /\ IF code_buffer # <<>>
                     THEN v.code = Append(w.code, join(code_buffer))
                     ELSE v.code = w.code
                  /\ same({"rows", "cells", "texts"})
    ]_vars

\* An item row whose text starts with %ROW went to rows only, while an item
\* was pending in the code buffer, and rows keeps the input order.
C15_Witness ==
  /\ rows = <<R_WI, R_WIN1, R_comment, R_ROW2, R_ROW1>>
  /\ windows[1].rows = <<T_ROW2, T_ROW1>>
  /\ windows[1].code = <<>>
  /\ code_buffer = <<T_comment>>

\* rs ends inside a text block: some INAME row with a %TEXT text has no
\* STYLE_NAME row after it.
InTextBlock(rs) ==
  \E i \in 1..Len(rs) :
    /\ IsIname(rs[i])
    /\ startswith(strip(rs[i].TEXT_PAYLOAD), S_TEXT)
    /\ \A m \in (i + 1)..Len(rs) : rs[m].ELEM_NAME # S_STYLE_NAME

\* C16: inside a text block (after an INAME row whose text starts with
\* %TEXT, before the next STYLE_NAME row) every TDLINE row with non-empty
\* text is appended, trimmed, to the texts of the current window.
C16_TextBlockLines ==
  [][ ( /\ pc = "loop" /\ rows' # rows
        /\ current_window # 0
        /\ InTextBlock(rows)
        /\ rows'[Len(rows')].ELEM_NAME = S_TDLINE
        /\ strip(rows'[Len(rows')].TEXT_PAYLOAD) # <<>> )
      => windows'[current_window].texts =
           Append(windows[current_window].texts,
                  strip(rows'[Len(rows')].TEXT_PAYLOAD))
    ]_vars

\* The window (graphic) with id n is in the list of some page of ps.
WindowAttached(ps, n) == \E i \in 1..Len(ps) : n \in Range(ps[i].windows)
GraphicAttached(ps, n) == \E i \in 1..Len(ps) : n \in Range(ps[i].graphics)

\* C17: a window or graphic name row consumed while no page is current
\* creates the container, makes it current and changes no page, without an
\* error; a container is attached at its creation or never, and the returned
\* pages hold exactly the attached containers.
C17_DetachedContainers ==
  [][ /\ pc' # "error"
      /\ ( /\ pc = "loop" /\ rows' # rows /\ current_page = 0
           /\ IsIname(rows'[Len(rows')])
           /\ ~capture_page /\ capture_window )
         => /\ windows' =
                 Append(windows,
                        new_window(strip(rows'[Len(rows')].TEXT_PAYLOAD)))
            /\ current_window' = Len(windows')
            /\ pages' = pages
      /\ ( /\ pc = "loop" /\ rows' # rows /\ current_page = 0
           /\ IsIname(rows'[Len(rows')])
           /\ ~capture_page /\ ~capture_window /\ capture_graphic )
         => /\ graphics' =
                 Append(graphics,
                        new_graphic(strip(rows'[Len(rows')].TEXT_PAYLOAD)))
            /\ current_graphic' = Len(graphics')
            /\ pages' = pages
      /\ \A n \in 1..Len(windows) :
           WindowAttached(pages', n) <=> WindowAttached(pages, n)
      /\ \A n \in 1..Len(graphics) :
           GraphicAttached(pages', n) <=> GraphicAttached(pages, n)
      /\ (pc = "finalize" /\ pc' = "done")
         => \A i \in 1..Len(pages) :
              /\ Len(result'[1].pages[i].windows) = Len(pages[i].windows)
              /\ Len(result'[1].pages[i].graphics) = Len(pages[i].graphics)
              /\ \A j \in 1..Len(pages[i].windows) :
                   result'[1].pages[i].windows[j] =
                     windows'[pages[i].windows[j]]
              /\ \A j \in 1..Len(pages[i].graphics) :
                   result'[1].pages[i].graphics[j] =
                     graphics'[pages[i].graphics[j]]
    ]_vars

\* A window opened before any page was extracted into, a page was opened
\* afterwards, and the returned page has no window.
C17_Witness ==
  /\ pc = "done"
  /\ rows = <<R_WI, R_WIN1, R_ROW1, R_PA, R_PAGE1>>
  /\ windows[1]._fields_set # {}
  /\ Len(result[1].pages) = 1
  /\ result[1].pages[1].windows = <<>>

\* C18: when a window and a graphic are both current, a row passed to the
\* extractors adds the same caption, table and field entries to both; a
\* window name row leaves the current graphic, and a graphic name row the
\* current window, as it is.
C18_ExtractorsPerContainer ==
  [][ /\ ( /\ pc = "loop" /\ rows' # rows
           /\ current_window # 0 /\ current_graphic # 0
           /\ PassedToExtractors(rows'[Len(rows')]) )
         => LET w == windows[current_window]
                v == windows'[current_window]
                g == graphics[current_graphic]
                h == graphics'[current_graphic]
            IN  /\ (v._captions_set \ w._captions_set) \subseteq h._captions_set
                /\ (h._captions_set \ g._captions_set) \subseteq v._captions_set
                /\ (v._tables_set \ w._tables_set) \subseteq h._tables_set
                /\ (h._tables_set \ g._tables_set) \subseteq v._tables_set
                /\ (v._fields_set \ w._fields_set) \subseteq h._fields_set
                /\ (h._fields_set \ g._fields_set) \subseteq v._fields_set
      /\ ( /\ pc = "loop" /\ rows' # rows
           /\ IsIname(rows'[Len(rows')])
           /\ ~capture_page /\ capture_window )
         => /\ current_window' = Len(windows) + 1
            /\ current_graphic' = current_graphic
      /\ ( /\ pc = "loop" /\ rows' # rows
           /\ IsIname(rows'[Len(rows')])
           /\ ~capture_page /\ ~capture_window /\ capture_graphic )
         => /\ current_graphic' = Len(graphics) + 1
            /\ current_window' = current_window
    ]_vars

\* A window and then a graphic were opened, both stayed current, and one
\* row left the same captions and tables in both.
C18_Witness ==
  /\ rows = <<R_WI, R_WIN1, R_GR, R_WIN1, R_ZTAB>>
  /\ current_window = 1 /\ current_graphic = 1
  /\ windows[1]._captions_set # {}
  /\ windows[1]._captions_set = graphics[1]._captions_set
  /\ windows[1]._tables_set # {}
  /\ windows[1]._tables_set = graphics[1]._tables_set

\* C19: a page name row suppressed as a repeat leaves the page sequence and
\* the current page as they are; a window (graphic) name row consumed while
\* a page is current appends the new container to that page and to no
\* other; every window (graphic) is in at most one page, and the pages list
\* them in the order of their name rows.
C19_ContainersJoinCurrentPage ==
  [][ /\ ( /\ pc = "loop" /\ rows' # rows
           /\ capture_page /\ IsIname(rows'[Len(rows')])
           /\ last_page_name = Some(strip(rows'[Len(rows')].TEXT_PAYLOAD)) )
         => /\ pages' = pages
            /\ current_page' = current_page
            /\ current_page # 0
      /\ ( /\ pc = "loop" /\ rows' # rows /\ current_page # 0
           /\ IsIname(rows'[Len(rows')])
           /\ ~capture_page /\ capture_window )
         => pages' = [pages EXCEPT ![current_page].windows =
                                     Append(@, Len(windows) + 1)]
      /\ ( /\ pc = "loop" /\ rows' # rows /\ current_page # 0
           /\ IsIname(rows'[Len(rows')])
           /\ ~capture_page /\ ~capture_window /\ capture_graphic )
         => pages' = [pages EXCEPT ![current_page].graphics =
                                     Append(@, Len(graphics) + 1)]
      /\ LET ws == page_ids(pages', "windows")
             gs == page_ids(pages', "graphics")
         IN  /\ \A i \in 1..(Len(ws) - 1) : ws[i] < ws[i + 1]
             /\ \A i \in 1..(Len(gs) - 1) : gs[i] < gs[i + 1]
      /\ (pc = "finalize" /\ pc' = "done")
         => \A i \in 1..Len(pages) :
              /\ Len(result'[1].pages[i].windows) = Len(pages[i].windows)
              /\ \A j \in 1..Len(pages[i].windows) :
                   result'[1].pages[i].windows[j].window_name =
                     windows[pages[i].windows[j]].window_name
    ]_vars

\* After a suppressed repeat of the page name, a window was opened and
\* joined the page that was already there.
C19_Witness ==
  /\ rows = <<R_PA, R_PAGE1, R_PA, R_PAGE1, R_WI, R_WIN1>>
  /\ Len(pages) = 1
  /\ current_page = 1
  /\ pages[1].windows = <<1>>
  /\ windows[1].window_name = T_WIN1

\* C20: a capture flag changes only on its own marker row (set) and on the
\* INAME row that takes it (cleared); an INAME row clears exactly one
\* pending flag, the page flag before the window flag before the graphic
\* flag; every other row leaves the flags and the tracker as they are and,
\* with a window current, is extracted as an ordinary row.
C20_FlagsPersistAndPriority ==
  [][ (pc = "loop" /\ rows' # rows)
      => LET elem == rows'[Len(rows')].ELEM_NAME
             text == strip(rows'[Len(rows')].TEXT_PAYLOAD)
             keep(flags) ==
               /\ "page" \in flags => capture_page' = capture_page
               /\ "window" \in flags => capture_window' = capture_window
               /\ "graphic" \in flags => capture_graphic' = capture_graphic
         IN  IF elem = S_NODETYPE /\ text = S_PA
             THEN capture_page' /\ keep({"window", "graphic"})
             ELSE IF elem = S_NODETYPE /\ text = S_WI
             THEN capture_window' /\ keep({"page", "graphic"})
             ELSE IF elem = S_NODETYPE /\ text = S_GR
             THEN capture_graphic' /\ keep({"page", "window"})
             ELSE IF elem = S_INAME /\ capture_page
             THEN ~capture_page' /\ keep({"window", "graphic"})
             ELSE IF elem = S_INAME /\ capture_window
             THEN ~capture_window' /\ keep({"page", "graphic"})
             ELSE IF elem = S_INAME /\ capture_graphic
             THEN ~capture_graphic' /\ keep({"page", "window"})
             ELSE /\ tracker' = tracker
                  /\ (current_window # 0 /\ elem \in CaptionElems
                      /\ text # <<>>)
                     => (elem \o <<":">> \o text)
                          \in windows'[current_window]._captions_set
    ]_vars

\* Three markers were pending across an ordinary row; the first INAME row
\* named the page, the second the window, and the graphic flag still waits.
C20_Witness ==
  /\ rows = <<R_PA, R_WI, R_GR, R_ZTAB, R_WIN1, R_PAGE1>>
  /\ Len(pages) = 1
  /\ pages[1].page_name = T_WIN1
  /\ pages[1].windows = <<1>>
  /\ windows[1].window_name = T_PAGE1
  /\ graphics = <<>>
  /\ ~capture_page /\ ~capture_window /\ capture_graphic

====
